---- MODULE Spec2Model ----
(***************************************************************************)
(* The wgkex broker (wgkex/broker/app.py): three process-global stores     *)
(* (worker_metrics, worker_data, broker_status) written by four MQTT       *)
(* topic callbacks and read/written by the HTTP key-exchange handlers.     *)
(*                                                                         *)
(* Strings that the code inspects character by character (MQTT payloads,   *)
(* WireGuard keys, JSON string values) are sequences of one-character      *)
(* strings; a string the code only compares or passes on (an address, a    *)
(* domain name in a JSON body) is a sequence of one element.  MQTT topics  *)
(* are sequences of topic levels.                                          *)
(*                                                                         *)
(* paho-mqtt runs all message callbacks on its single network thread, so   *)
(* one callback is one action.  The HTTP handlers run on waitress worker   *)
(* threads and are split at every point where they read or write a store.  *)
(*                                                                         *)
(* Four specifications share the state: SpecMqtt (every callback, traced   *)
(* delivery), Spec (one request thread and well-formed MQTT traffic),      *)
(* SpecRace (two request threads) and SpecSession (the MQTT session, the   *)
(* will and the retained status of the broker's own topic).                *)
(***************************************************************************)
EXTENDS Integers, Sequences, FiniteSets, TLC

(***************************************************************************)
(* Bounds                                                                  *)
(***************************************************************************)
\* the interpolation write is not taken beyond this peer count
MaxPeers == 3

(***************************************************************************)
(* Values                                                                  *)
(***************************************************************************)
None == "<None>"
EmptyMap == [x \in {} |-> 0]

\* worker ids in lexicographic order
Workers == <<"gw1", "gw2">>
WorkerIds == {Workers[i] : i \in 1..Len(Workers)}
BrokerIds == {"broker1", "broker2"}
_HOSTNAME == "broker1"

ConfiguredDomains == {"ffda"}
Domains == ConfiguredDomains \cup {"nope"}

CONNECTED_PEERS_METRIC == "connected_peers"

\* The callbacks take the worker or broker id from the second part of
\* topic.split("/", 2) and the domain from the third part of topic.split("/", 3),
\* so everything before the id is the first part of the split.
TOPIC_METRICS_PREFIX == "wireguard-metrics"
TOPIC_WORKER_PREFIX == "wireguard/worker"
TOPIC_BROKER_PREFIX == "wireguard/broker"
TOPIC_WORKER_STATUS(worker) == <<TOPIC_WORKER_PREFIX, worker, "status">>
TOPIC_WORKER_WG_DATA(worker, domain) == <<TOPIC_WORKER_PREFIX, worker, domain, "data">>
TOPIC_BROKER_STATUS(broker) == <<TOPIC_BROKER_PREFIX, broker, "status">>

is_valid_domain(domain) == domain \in ConfiguredDomains

(***************************************************************************)
(* Strings                                                                 *)
(***************************************************************************)
Rep(c, n) == [i \in 1..n |-> c]

DigitChars == <<"0", "1", "2", "3", "4", "5", "6", "7", "8", "9">>
IsDigit(c) == \E i \in 1..Len(DigitChars) : DigitChars[i] = c
DigitVal(c) == (CHOOSE i \in 1..Len(DigitChars) : DigitChars[i] = c) - 1

RECURSIVE DigitsVal(_)
DigitsVal(s) ==
    IF Len(s) = 0 THEN 0
    ELSE 10 * DigitsVal(SubSeq(s, 1, Len(s) - 1)) + DigitVal(s[Len(s)])

\* int(text): optional sign, then one or more decimal digits
IntBody(s) == IF Len(s) > 0 /\ s[1] \in {"-", "+"} THEN Tail(s) ELSE s
IntOk(s) == Len(IntBody(s)) > 0 /\ \A i \in 1..Len(IntBody(s)) : IsDigit(IntBody(s)[i])
IntVal(s) == IF Len(s) > 0 /\ s[1] = "-" THEN 0 - DigitsVal(IntBody(s)) ELSE DigitsVal(IntBody(s))

RECURSIVE NatToStr(_)
NatToStr(n) ==
    IF n < 10 THEN <<DigitChars[n + 1]>>
    ELSE NatToStr(n \div 10) \o <<DigitChars[(n % 10) + 1]>>
\* str(int)
IntToStr(n) == IF n < 0 THEN <<"-">> \o NatToStr(0 - n) ELSE NatToStr(n)

\* "/".join(levels) for the remainders that str.split(sep, maxsplit) leaves
JoinLevels(levels) ==
    IF Len(levels) = 1 THEN levels[1]
    ELSE IF levels = <<"rx", "errors">> THEN "rx/errors"
    ELSE "<joined>"

\* topic.split("/", maxsplit)
Split(topic, maxsplit) ==
    IF Len(topic) <= maxsplit + 1 THEN topic
    ELSE SubSeq(topic, 1, maxsplit) \o <<JoinLevels(SubSeq(topic, maxsplit + 1, Len(topic)))>>

(***************************************************************************)
(* WireGuard public keys                                                   *)
(***************************************************************************)
\* the characters of [A-Za-z0-9+/] that occur in the keys used here
B64Chars == {"A", "B", "E", "Z", "a", "g", "z", "0", "8", "9", "+", "/"}
B64LastChars == {"A", "E", "I", "M", "Q", "U", "Y", "c", "g", "k", "o", "s", "w", "4", "8", "0"}

\* WG_PUBKEY_PATTERN.match(pubkey) is not None; "$" also matches before a final newline
WG_PUBKEY_PATTERN_match(s) ==
    /\ Len(s) \in {44, 45}
    /\ \A i \in 1..42 : s[i] \in B64Chars
    /\ s[43] \in B64LastChars
    /\ s[44] = "="
    /\ (Len(s) = 45 => s[45] = "\n")

KeyA == Rep("A", 42) \o <<"E", "=">>
KeyBadLast == Rep("A", 42) \o <<"B", "=">>
KeyShort == <<"s", "h", "o", "r", "t">>
KeyNewline == KeyA \o <<"\n">>

\* JSON values: null, number, string
JNull == [t |-> "null"]
JNum(n) == [t |-> "num", v |-> n]
JStr(s) == [t |-> "str", v |-> s]

\* str(value)
PyStr(j) ==
    IF j.t = "null" THEN <<"N", "o", "n", "e">>
    ELSE IF j.t = "num" THEN IntToStr(j.v)
    ELSE j.v

\* dict.get(name)
DictGet(obj, name) == IF name \in DOMAIN obj THEN obj[name] ELSE JNull

\* is_valid_wg_pubkey(pubkey): the key, or the exception raised
is_valid_wg_pubkey(j) ==
    IF j.t # "str" THEN [exc |-> "TypeError"]
    ELSE IF ~WG_PUBKEY_PATTERN_match(j.v) THEN [exc |-> "ValueError"]
    ELSE [exc |-> "none", value |-> j.v]

(***************************************************************************)
(* State                                                                   *)
(***************************************************************************)
VARIABLES
    worker_metrics,   \* worker id -> [online, domain_metrics: domain -> metric -> int]
    worker_data,      \* <<worker, domain>> -> WorkerData
    broker_status,    \* broker id -> [online]
    mqtt_last,        \* the message the MQTT client dispatched last, and how its callback ended
    pc, req, best, online_brokers, current_peers_domain, resp,   \* HTTP request threads
    published,        \* messages handed to mqtt.client.publish, per request thread
    mqtt_session      \* the MQTT client's will and session, and the retained broker status

stores == <<worker_metrics, worker_data, broker_status>>
http == <<pc, req, best, online_brokers, current_peers_domain, resp, published>>
vars == <<worker_metrics, worker_data, broker_status, mqtt_last,
          pc, req, best, online_brokers, current_peers_domain, resp, published,
          mqtt_session>>

(***************************************************************************)
(* WorkerMetricsCollection (wgkex/broker/metrics.py)                       *)
(***************************************************************************)
NewWorkerMetrics == [online |-> FALSE, domain_metrics |-> EmptyMap]

\* get(worker): the collection after the lookup, which creates a missing record
WM_get(wm, worker) ==
    IF worker \in DOMAIN wm THEN wm ELSE wm @@ (worker :> NewWorkerMetrics)

is_online(wm, worker) == WM_get(wm, worker)[worker].online

WM_set_online(wm, worker) == [WM_get(wm, worker) EXCEPT ![worker].online = TRUE]
WM_set_offline(wm, worker) == [WM_get(wm, worker) EXCEPT ![worker].online = FALSE]

get_domain_metrics(wm, worker, domain) ==
    IF worker \in DOMAIN wm /\ domain \in DOMAIN wm[worker].domain_metrics
    THEN wm[worker].domain_metrics[domain]
    ELSE EmptyMap

MapGet(m, k, default) == IF k \in DOMAIN m THEN m[k] ELSE default

WM_update(wm, worker, domain, metric, value) ==
    LET wm1 == WM_get(wm, worker)
        dm == wm1[worker].domain_metrics
        old == IF domain \in DOMAIN dm THEN dm[domain] ELSE EmptyMap
        new == [m \in DOMAIN old \cup {metric} |-> IF m = metric THEN value ELSE old[m]]
    IN  [wm1 EXCEPT ![worker].domain_metrics =
            [d \in DOMAIN dm \cup {domain} |-> IF d = domain THEN new ELSE dm[d]]]

PeerCount(wm, worker, domain) ==
    MapGet(get_domain_metrics(wm, worker, domain), CONNECTED_PEERS_METRIC, 0)

Rank(worker) == CHOOSE i \in 1..Len(Workers) : Workers[i] = worker

\* the online workers that have metrics for the domain
Candidates(wm, domain) ==
    {w \in DOMAIN wm : wm[w].online /\ domain \in DOMAIN wm[w].domain_metrics}

Before(wm, domain, a, b) ==
    \/ PeerCount(wm, a, domain) < PeerCount(wm, b, domain)
    \/ PeerCount(wm, a, domain) = PeerCount(wm, b, domain) /\ Rank(a) <= Rank(b)

Lowest(wm, domain, cands) == CHOOSE w \in cands : \A o \in cands : Before(wm, domain, w, o)

get_best_worker(wm, domain) ==
    LET cands == Candidates(wm, domain)
    IN  IF cands = {} THEN [worker |-> None, diff |-> 0, current_peers |-> 0]
        ELSE LET b == Lowest(wm, domain, cands)
                 rest == cands \ {b}
                 cur == PeerCount(wm, b, domain)
             IN  [worker |-> b,
                  diff |-> IF rest = {} THEN 0
                           ELSE PeerCount(wm, Lowest(wm, domain, rest), domain) - cur,
                  current_peers |-> cur]

(***************************************************************************)
(* MQTT callbacks: the stores after the callback and the exception, if     *)
(* any, that leaves it                                                     *)
(***************************************************************************)
handle_mqtt_message_metrics_ungated(wm, topic, payload) ==
    LET parts == Split(topic, 3)
    IN  IF Len(parts) # 4 THEN [wm |-> wm, exc |-> "ValueError"]
        ELSE IF parts[3] = "" \/ parts[4] = "" THEN [wm |-> wm, exc |-> "none"]
        ELSE IF ~IntOk(payload) THEN [wm |-> wm, exc |-> "ValueError"]
        ELSE [wm |-> WM_update(wm, parts[3], parts[2], parts[4], IntVal(payload)),
              exc |-> "none"]

\* line 290 adding the payload to the stored value
handle_mqtt_message_metrics_accumulates(wm, topic, payload) ==
    LET parts == Split(topic, 3)
    IN  IF Len(parts) # 4 THEN [wm |-> wm, exc |-> "ValueError"]
        ELSE IF ~is_valid_domain(parts[2]) THEN [wm |-> wm, exc |-> "none"]
        ELSE IF parts[3] = "" \/ parts[4] = "" THEN [wm |-> wm, exc |-> "none"]
        ELSE IF ~IntOk(payload) THEN [wm |-> wm, exc |-> "ValueError"]
        ELSE [wm |-> WM_update(wm, parts[3], parts[2], parts[4],
                               MapGet(get_domain_metrics(wm, parts[3], parts[2]),
                                      parts[4], 0) + IntVal(payload)),
              exc |-> "none"]

\* lines 278-290 marking the worker online when its metric is stored
handle_mqtt_message_metrics_sets_online(wm, topic, payload) ==
    LET parts == Split(topic, 3)
    IN  IF Len(parts) # 4 THEN [wm |-> wm, exc |-> "ValueError"]
        ELSE IF ~is_valid_domain(parts[2]) THEN [wm |-> wm, exc |-> "none"]
        ELSE IF parts[3] = "" \/ parts[4] = "" THEN [wm |-> wm, exc |-> "none"]
        ELSE IF ~IntOk(payload) THEN [wm |-> wm, exc |-> "ValueError"]
        ELSE [wm |-> WM_set_online(WM_update(wm, parts[3], parts[2], parts[4],
                                             IntVal(payload)), parts[3]),
              exc |-> "none"]

handle_mqtt_message_metrics(wm, topic, payload) ==
    LET parts == Split(topic, 3)
    IN  IF Len(parts) # 4 THEN [wm |-> wm, exc |-> "ValueError"]
        ELSE LET domain == parts[2]
                 worker == parts[3]
                 metric == parts[4]
             IN  IF ~is_valid_domain(domain) THEN [wm |-> wm, exc |-> "none"]
                 ELSE IF worker = "" \/ metric = "" THEN [wm |-> wm, exc |-> "none"]
                 ELSE IF ~IntOk(payload) THEN [wm |-> wm, exc |-> "ValueError"]
                 ELSE [wm |-> WM_update(wm, worker, domain, metric, IntVal(payload)),
                       exc |-> "none"]

\* the two comparisons of the status exchanged
handle_mqtt_message_worker_status_inverted(wm, topic, payload) ==
    LET worker == Split(topic, 2)[2]
        status == IntVal(payload)
    IN  IF ~IntOk(payload) THEN [wm |-> wm, exc |-> "ValueError", transition |-> "none"]
        ELSE IF status >= 1 /\ is_online(wm, worker)
        THEN [wm |-> WM_set_offline(wm, worker), exc |-> "none", transition |-> "offline"]
        ELSE IF status < 1 /\ ~is_online(wm, worker)
        THEN [wm |-> WM_set_online(wm, worker), exc |-> "none", transition |-> "online"]
        ELSE [wm |-> WM_get(wm, worker), exc |-> "none", transition |-> "none"]

\* the online branch without its test of the current flag
handle_mqtt_message_worker_status_unguarded(wm, topic, payload) ==
    LET worker == Split(topic, 2)[2]
        status == IntVal(payload)
    IN  IF ~IntOk(payload) THEN [wm |-> wm, exc |-> "ValueError", transition |-> "none"]
        ELSE IF status < 1 /\ is_online(wm, worker)
        THEN [wm |-> WM_set_offline(wm, worker), exc |-> "none", transition |-> "offline"]
        ELSE IF status >= 1
        THEN [wm |-> WM_set_online(wm, worker), exc |-> "none", transition |-> "online"]
        ELSE [wm |-> WM_get(wm, worker), exc |-> "none", transition |-> "none"]

handle_mqtt_message_worker_status(wm, topic, payload) ==
    LET parts == Split(topic, 2)
    IN  IF Len(parts) # 3 THEN [wm |-> wm, exc |-> "ValueError", transition |-> "none"]
        ELSE LET worker == parts[2]
                 status == IntVal(payload)
             IN  IF ~IntOk(payload)
                 THEN [wm |-> wm, exc |-> "ValueError", transition |-> "none"]
                 ELSE IF status < 1 /\ is_online(wm, worker)
                 THEN [wm |-> WM_set_offline(wm, worker), exc |-> "none",
                       transition |-> "offline"]
                 ELSE IF status >= 1 /\ ~is_online(wm, worker)
                 THEN [wm |-> WM_set_online(wm, worker), exc |-> "none",
                       transition |-> "online"]
                 ELSE [wm |-> WM_get(wm, worker), exc |-> "none", transition |-> "none"]

\* WorkerData.from_dict(msg): line 83 reads the local link_address before any
\* assignment to it, so every call that gets that far raises UnboundLocalError
WorkerData_from_dict(msg) ==
    LET external_address == PyStr(DictGet(msg, "ExternalAddress"))
        port == DictGet(msg, "Port")
    IN  IF port.t = "null" THEN [exc |-> "TypeError"]
        ELSE IF port.t = "str" /\ ~IntOk(port.v) THEN [exc |-> "ValueError"]
        ELSE [exc |-> "UnboundLocalError"]

handle_mqtt_message_data(wd, topic, payload) ==
    LET parts == Split(topic, 3)
    IN  IF Len(parts) # 4 THEN [wd |-> wd, exc |-> "ValueError"]
        ELSE LET worker == parts[2]
                 domain == parts[3]
             IN  IF ~is_valid_domain(domain) THEN [wd |-> wd, exc |-> "none"]
                 ELSE IF payload.kind = "malformed"
                 THEN [wd |-> wd, exc |-> "JSONDecodeError"]
                 ELSE IF payload.kind # "object" THEN [wd |-> wd, exc |-> "none"]
                 ELSE LET w_data == WorkerData_from_dict(payload.obj)
                      IN  IF w_data.exc # "none" THEN [wd |-> wd, exc |-> "none"]
                          ELSE [wd |-> [k \in DOMAIN wd \cup {<<worker, domain>>} |->
                                          IF k = <<worker, domain>> THEN w_data.value
                                          ELSE wd[k]],
                                exc |-> "none"]

\* a new broker is entered whatever its status
handle_mqtt_message_broker_status_always_creates(bs, topic, payload) ==
    LET broker == Split(topic, 2)[2]
        status == IntVal(payload)
    IN  IF ~IntOk(payload) THEN [bs |-> bs, exc |-> "ValueError", transition |-> "none"]
        ELSE IF broker \notin DOMAIN bs
        THEN [bs |-> bs @@ (broker :> [online |-> status >= 1]), exc |-> "none",
              transition |-> "none"]
        ELSE [bs |-> [bs EXCEPT ![broker].online = status >= 1], exc |-> "none",
              transition |-> "none"]

handle_mqtt_message_broker_status(bs, topic, payload) ==
    LET parts == Split(topic, 2)
    IN  IF Len(parts) # 3 THEN [bs |-> bs, exc |-> "ValueError", transition |-> "none"]
        ELSE LET broker == parts[2]
                 status == IntVal(payload)
             IN  IF ~IntOk(payload)
                 THEN [bs |-> bs, exc |-> "ValueError", transition |-> "none"]
                 ELSE IF broker \notin DOMAIN bs
                 THEN IF status >= 1
                      THEN [bs |-> bs @@ (broker :> [online |-> TRUE]), exc |-> "none",
                            transition |-> "none"]
                      ELSE [bs |-> bs, exc |-> "none", transition |-> "none"]
                 ELSE IF status < 1 /\ bs[broker].online
                 THEN [bs |-> [bs EXCEPT ![broker].online = FALSE], exc |-> "none",
                       transition |-> "offline"]
                 ELSE IF status >= 1 /\ ~bs[broker].online
                 THEN [bs |-> [bs EXCEPT ![broker].online = TRUE], exc |-> "none",
                       transition |-> "online"]
                 ELSE [bs |-> bs, exc |-> "none", transition |-> "none"]

\* one callback invocation on the MQTT client's network thread
OnMetrics(topic, payload) ==
    /\ worker_metrics' = handle_mqtt_message_metrics(worker_metrics, topic, payload).wm
    /\ UNCHANGED <<worker_data, broker_status, http, mqtt_session>>

OnWorkerStatus(topic, payload) ==
    /\ worker_metrics' = handle_mqtt_message_worker_status(worker_metrics, topic, payload).wm
    /\ UNCHANGED <<worker_data, broker_status, http, mqtt_session>>

OnData(topic, payload) ==
    /\ worker_data' = handle_mqtt_message_data(worker_data, topic, payload).wd
    /\ UNCHANGED <<worker_metrics, broker_status, http, mqtt_session>>

OnBrokerStatus(topic, payload) ==
    /\ broker_status' = handle_mqtt_message_broker_status(broker_status, topic, payload).bs
    /\ UNCHANGED <<worker_metrics, worker_data, http, mqtt_session>>

\* The delivery trace: which message the client dispatched last, what left the
\* callback, which online/offline transition it logged, and whether the message
\* repeats the one dispatched just before it.
Dispatched(handler, topic, payload, exc, transition) ==
    mqtt_last' = [handler |-> handler, topic |-> topic, payload |-> payload,
                  exc |-> exc, transition |-> transition,
                  repeat |-> /\ mqtt_last.handler = handler
                             /\ mqtt_last.topic = topic
                             /\ mqtt_last.payload = payload]

DispatchMetrics(topic, payload) ==
    /\ OnMetrics(topic, payload)
    /\ Dispatched("metrics", topic, payload,
                  handle_mqtt_message_metrics(worker_metrics, topic, payload).exc, "none")

DispatchWorkerStatus(topic, payload) ==
    LET r == handle_mqtt_message_worker_status(worker_metrics, topic, payload)
    IN  /\ OnWorkerStatus(topic, payload)
        /\ Dispatched("worker_status", topic, payload, r.exc, r.transition)

DispatchData(topic, payload) ==
    /\ OnData(topic, payload)
    /\ Dispatched("data", topic, payload,
                  handle_mqtt_message_data(worker_data, topic, payload).exc, "none")

DispatchBrokerStatus(topic, payload) ==
    LET r == handle_mqtt_message_broker_status(broker_status, topic, payload)
    IN  /\ OnBrokerStatus(topic, payload)
        /\ Dispatched("broker_status", topic, payload, r.exc, r.transition)

(***************************************************************************)
(* HTTP handlers                                                           *)
(***************************************************************************)
\* lines 42-55 without the is_valid_domain check of line 51
KeyExchange_from_dict_any_domain(body) ==
    IF body.kind = "malformed" THEN [exc |-> "BadRequest"]
    ELSE IF body.kind # "object" THEN [exc |-> "AttributeError"]
    ELSE LET public_key == is_valid_wg_pubkey(DictGet(body.obj, "public_key"))
             domain == PyStr(DictGet(body.obj, "domain"))
         IN  IF public_key.exc # "none" THEN [exc |-> public_key.exc]
             ELSE [exc |-> "none",
                   value |-> [public_key |-> public_key.value, domain |-> domain[1]]]

\* KeyExchange.from_dict(request.get_json(force=True)) inside the handlers'
\* try block: the KeyExchange, or the exception the handler catches
KeyExchange_from_dict(body) ==
    IF body.kind = "malformed" THEN [exc |-> "BadRequest"]
    ELSE IF body.kind # "object" THEN [exc |-> "AttributeError"]
    ELSE LET public_key == is_valid_wg_pubkey(DictGet(body.obj, "public_key"))
             domain == PyStr(DictGet(body.obj, "domain"))
         IN  IF public_key.exc # "none" THEN [exc |-> public_key.exc]
             ELSE IF Len(domain) # 1 \/ ~is_valid_domain(domain[1])
             THEN [exc |-> "ValueError"]
             ELSE [exc |-> "none",
                   value |-> [public_key |-> public_key.value, domain |-> domain[1]]]

ErrorResponse(message, status) == [status |-> status, error |-> message]
NoResponse == [status |-> 0]

\* wireguard/<domain>/all
TOPIC_KEY_EXCHANGE(domain) == <<"wireguard", domain, "all">>

NoRequest == [api |-> None, public_key |-> <<>>, domain |-> None]
Rejected(api) == [api |-> api, public_key |-> <<>>, domain |-> None]
Accepted(api, data) == [api |-> api, public_key |-> data.public_key, domain |-> data.domain]
NoBest == [worker |-> None, diff |-> 0, current_peers |-> 0]

\* a request thread takes the next request when it is not inside a handler
Accepts(r) == pc[r] \in {"idle", "done"}

\* lines 159-171 with the worker selection of the v2 handler (194-201) put in
wg_api_v1_key_exchange_selects(r, body) ==
    LET data == KeyExchange_from_dict(body)
    IN  /\ Accepts(r)
        /\ pc' = [pc EXCEPT ![r] = "done"]
        /\ best' = [best EXCEPT ![r] = NoBest]
        /\ online_brokers' = [online_brokers EXCEPT ![r] = 0]
        /\ current_peers_domain' = [current_peers_domain EXCEPT ![r] = 0]
        /\ IF data.exc # "none"
           THEN /\ req' = [req EXCEPT ![r] = Rejected("v1")]
                /\ published' = [published EXCEPT ![r] = <<>>]
                /\ resp' = [resp EXCEPT ![r] = ErrorResponse(data.exc, 400)]
           ELSE /\ req' = [req EXCEPT ![r] = Accepted("v1", data.value)]
                /\ published' = [published EXCEPT ![r] =
                        <<[topic |-> TOPIC_KEY_EXCHANGE(data.value.domain),
                           payload |-> data.value.public_key]>>]
                /\ resp' = [resp EXCEPT ![r] =
                        IF get_best_worker(worker_metrics, data.value.domain).worker = None
                        THEN ErrorResponse("no gateway online", 400)
                        ELSE [status |-> 200, Message |-> "OK"]]
        /\ UNCHANGED <<stores, mqtt_last, mqtt_session>>

\* wg_api_v1_key_exchange, lines 159-171
wg_api_v1_key_exchange(r, body) ==
    LET data == KeyExchange_from_dict(body)
    IN  /\ Accepts(r)
        /\ pc' = [pc EXCEPT ![r] = "done"]
        /\ best' = [best EXCEPT ![r] = NoBest]
        /\ online_brokers' = [online_brokers EXCEPT ![r] = 0]
        /\ current_peers_domain' = [current_peers_domain EXCEPT ![r] = 0]
        /\ IF data.exc # "none"
           THEN /\ req' = [req EXCEPT ![r] = Rejected("v1")]
                /\ published' = [published EXCEPT ![r] = <<>>]
                /\ resp' = [resp EXCEPT ![r] = ErrorResponse(data.exc, 400)]
           ELSE /\ req' = [req EXCEPT ![r] = Accepted("v1", data.value)]
                /\ published' = [published EXCEPT ![r] =
                        <<[topic |-> TOPIC_KEY_EXCHANGE(data.value.domain),
                           payload |-> data.value.public_key]>>]
                /\ resp' = [resp EXCEPT ![r] = [status |-> 200, Message |-> "OK"]]
        /\ UNCHANGED <<stores, mqtt_last, mqtt_session>>

\* lines 181-192 without the publish of line 192
V2Publish_silent(r, body) ==
    LET data == KeyExchange_from_dict(body)
    IN  /\ Accepts(r)
        /\ best' = [best EXCEPT ![r] = NoBest]
        /\ online_brokers' = [online_brokers EXCEPT ![r] = 0]
        /\ current_peers_domain' = [current_peers_domain EXCEPT ![r] = 0]
        /\ published' = [published EXCEPT ![r] = <<>>]
        /\ IF data.exc # "none"
           THEN /\ pc' = [pc EXCEPT ![r] = "done"]
                /\ req' = [req EXCEPT ![r] = Rejected("v2")]
                /\ resp' = [resp EXCEPT ![r] = ErrorResponse(data.exc, 400)]
           ELSE /\ pc' = [pc EXCEPT ![r] = "published"]
                /\ req' = [req EXCEPT ![r] = Accepted("v2", data.value)]
                /\ resp' = [resp EXCEPT ![r] = NoResponse]
        /\ UNCHANGED <<stores, mqtt_last, mqtt_session>>

\* wg_api_v2_key_exchange, lines 181-192: validate and publish
V2Publish(r, body) ==
    LET data == KeyExchange_from_dict(body)
    IN  /\ Accepts(r)
        /\ best' = [best EXCEPT ![r] = NoBest]
        /\ online_brokers' = [online_brokers EXCEPT ![r] = 0]
        /\ current_peers_domain' = [current_peers_domain EXCEPT ![r] = 0]
        /\ IF data.exc # "none"
           THEN /\ pc' = [pc EXCEPT ![r] = "done"]
                /\ req' = [req EXCEPT ![r] = Rejected("v2")]
                /\ published' = [published EXCEPT ![r] = <<>>]
                /\ resp' = [resp EXCEPT ![r] = ErrorResponse(data.exc, 400)]
           ELSE /\ pc' = [pc EXCEPT ![r] = "published"]
                /\ req' = [req EXCEPT ![r] = Accepted("v2", data.value)]
                /\ published' = [published EXCEPT ![r] =
                        <<[topic |-> TOPIC_KEY_EXCHANGE(data.value.domain),
                           payload |-> data.value.public_key]>>]
                /\ resp' = [resp EXCEPT ![r] = NoResponse]
        /\ UNCHANGED <<stores, mqtt_last, mqtt_session>>

\* lines 194-201: best_worker, diff, current_peers = get_best_worker(domain)
SelectedWorker_swapped(wm, domain) ==
    [worker |-> get_best_worker(wm, domain).worker,
     diff |-> get_best_worker(wm, domain).current_peers,
     current_peers |-> get_best_worker(wm, domain).diff]

SelectedWorker(wm, domain) == get_best_worker(wm, domain)

\* lines 194-201 with the worker_metrics.get of line 208 ahead of the None test
V2Select_reads_first(r) ==
    LET sel == SelectedWorker(worker_metrics, req[r].domain)
    IN  /\ pc[r] = "published"
        /\ best' = [best EXCEPT ![r] = sel]
        /\ worker_metrics' = WM_get(worker_metrics, sel.worker)
        /\ IF sel.worker = None
           THEN /\ pc' = [pc EXCEPT ![r] = "done"]
                /\ resp' = [resp EXCEPT ![r] = ErrorResponse("no gateway online", 400)]
           ELSE /\ pc' = [pc EXCEPT ![r] = "selected"]
                /\ UNCHANGED resp
        /\ UNCHANGED <<worker_data, broker_status, mqtt_last, mqtt_session, req, online_brokers,
                       current_peers_domain, published>>

V2Select(r) ==
    LET sel == SelectedWorker(worker_metrics, req[r].domain)
    IN  /\ pc[r] = "published"
        /\ best' = [best EXCEPT ![r] = sel]
        /\ IF sel.worker = None
           THEN /\ pc' = [pc EXCEPT ![r] = "done"]
                /\ resp' = [resp EXCEPT ![r] = ErrorResponse("no gateway online", 400)]
           ELSE /\ pc' = [pc EXCEPT ![r] = "selected"]
                /\ UNCHANGED resp
        /\ UNCHANGED <<stores, mqtt_last, mqtt_session, req, online_brokers, current_peers_domain,
                       published>>

\* line 206: sum(1 if broker.online else 0 for broker in broker_status.values())
CountOnlineBrokers(bs) == Cardinality({b \in DOMAIN bs : bs[b].online})

\* lines 206-212: count the online brokers, read the worker's peer count
V2Read(r) ==
    /\ pc[r] = "selected"
    /\ pc' = [pc EXCEPT ![r] = "read"]
    /\ online_brokers' = [online_brokers EXCEPT ![r] = CountOnlineBrokers(broker_status)]
    /\ current_peers_domain' = [current_peers_domain EXCEPT ![r] =
            PeerCount(worker_metrics, best[r].worker, req[r].domain)]
    /\ worker_metrics' = WM_get(worker_metrics, best[r].worker)
    /\ UNCHANGED <<worker_data, broker_status, mqtt_last, mqtt_session, req, best, resp, published>>

\* lines 213-218: the interpolation write
InterpolatedPeers_by_one(current, brokers) == current + 1

InterpolatedPeers(current, brokers) == current + brokers

\* lines 213-218 adding the broker count to the value stored at the time of
\* the write instead of the value read at lines 208-212
V2Update_atomic(r) ==
    /\ pc[r] = "read"
    /\ InterpolatedPeers(PeerCount(worker_metrics, best[r].worker, req[r].domain),
                         online_brokers[r]) <= MaxPeers
    /\ pc' = [pc EXCEPT ![r] = "updated"]
    /\ worker_metrics' = WM_update(worker_metrics, best[r].worker, req[r].domain,
                                   CONNECTED_PEERS_METRIC,
                                   InterpolatedPeers(PeerCount(worker_metrics, best[r].worker,
                                                               req[r].domain),
                                                     online_brokers[r]))
    /\ UNCHANGED <<worker_data, broker_status, mqtt_last, mqtt_session, req, best, online_brokers,
                   current_peers_domain, resp, published>>

V2Update(r) ==
    /\ pc[r] = "read"
    /\ InterpolatedPeers(current_peers_domain[r], online_brokers[r]) <= MaxPeers
    /\ pc' = [pc EXCEPT ![r] = "updated"]
    /\ worker_metrics' = WM_update(worker_metrics, best[r].worker, req[r].domain,
                                   CONNECTED_PEERS_METRIC,
                                   InterpolatedPeers(current_peers_domain[r],
                                                     online_brokers[r]))
    /\ UNCHANGED <<worker_data, broker_status, mqtt_last, mqtt_session, req, best, online_brokers,
                   current_peers_domain, resp, published>>

\* lines 223-235: look the endpoint up and answer
EndpointResponse_as_400(wd, worker, domain) ==
    IF <<worker, domain>> \notin DOMAIN wd
    THEN ErrorResponse("could not get gateway data", 400)
    ELSE [status |-> 200, Endpoint |-> wd[<<worker, domain>>]]

EndpointResponse(wd, worker, domain) ==
    IF <<worker, domain>> \notin DOMAIN wd
    THEN ErrorResponse("could not get gateway data", 500)
    ELSE LET w_data == wd[<<worker, domain>>]
         IN  [status |-> 200,
              Endpoint |-> [Address |-> w_data.external_address,
                            Port |-> IntToStr(w_data.port),
                            AllowedIPs |-> <<w_data.link_address>>,
                            PublicKey |-> w_data.public_key]]

V2Respond(r) ==
    /\ pc[r] = "updated"
    /\ pc' = [pc EXCEPT ![r] = "done"]
    /\ resp' = [resp EXCEPT ![r] = EndpointResponse(worker_data, best[r].worker,
                                                    req[r].domain)]
    /\ UNCHANGED <<stores, mqtt_last, mqtt_session, req, best, online_brokers, current_peers_domain,
                   published>>

(***************************************************************************)
(* Messages                                                                *)
(***************************************************************************)
MetricMessages ==
    ({<<TOPIC_METRICS_PREFIX, "ffda", "gw1", CONNECTED_PEERS_METRIC>>,
       <<TOPIC_METRICS_PREFIX, "ffda", "gw2", CONNECTED_PEERS_METRIC>>,
       <<TOPIC_METRICS_PREFIX, "nope", "gw1", CONNECTED_PEERS_METRIC>>}
        \X {<<"1">>, <<"2">>, <<"x">>})
    \cup ({<<TOPIC_METRICS_PREFIX, "ffda", "gw1", "rx">>,
           <<TOPIC_METRICS_PREFIX, "ffda", "", CONNECTED_PEERS_METRIC>>,
           <<TOPIC_METRICS_PREFIX, "ffda", "gw1", "">>,
           <<TOPIC_METRICS_PREFIX>>,
           <<TOPIC_METRICS_PREFIX, "ffda">>,
           <<TOPIC_METRICS_PREFIX, "ffda", "gw1">>,
           <<TOPIC_METRICS_PREFIX, "ffda", "gw2", "rx", "errors">>}
          \X {<<"1">>})

StatusPayloads == {<<"0">>, <<"1">>, <<"x">>}

WorkerStatusMessages == {TOPIC_WORKER_STATUS(w) : w \in WorkerIds} \X StatusPayloads
BrokerStatusMessages == {TOPIC_BROKER_STATUS(b) : b \in BrokerIds} \X StatusPayloads

GoodData ==
    [ExternalAddress |-> JStr(<<"gw1.example">>), Port |-> JNum(51820),
     LinkAddress |-> JStr(<<"fe80::1/64">>), PublicKey |-> JStr(KeyA)]

DataPayloads ==
    {[kind |-> "malformed"], [kind |-> "array"],
     [kind |-> "object", obj |-> GoodData],
     [kind |-> "object", obj |-> [GoodData EXCEPT !.Port = JStr(<<"x">>)]],
     [kind |-> "object", obj |-> [ExternalAddress |-> JStr(<<"gw1.example">>)]]}

DataMessages ==
    {TOPIC_WORKER_WG_DATA("gw1", d) : d \in Domains} \X DataPayloads

(***************************************************************************)
(* Specification of the MQTT side                                          *)
(***************************************************************************)
Req == {1}

\* the client after Mqtt(app), line 128: no will registered, no session
\* established, nothing retained on the broker's status topic
NoSession == [will |-> FALSE, link |-> "idle", session_will |-> FALSE, retained |-> <<>>]

Init ==
    /\ worker_metrics = EmptyMap
    /\ worker_data = EmptyMap
    /\ broker_status = EmptyMap
    /\ mqtt_last = [handler |-> "none", topic |-> <<>>, payload |-> <<>>,
                    exc |-> "none", transition |-> "none", repeat |-> FALSE]
    /\ pc = [r \in Req |-> "idle"]
    /\ req = [r \in Req |-> NoRequest]
    /\ best = [r \in Req |-> NoBest]
    /\ online_brokers = [r \in Req |-> 0]
    /\ current_peers_domain = [r \in Req |-> 0]
    /\ resp = [r \in Req |-> NoResponse]
    /\ published = [r \in Req |-> <<>>]
    /\ mqtt_session = NoSession

NextMqtt ==
    \/ \E m \in MetricMessages : DispatchMetrics(m[1], m[2])
    \/ \E m \in WorkerStatusMessages : DispatchWorkerStatus(m[1], m[2])
    \/ \E m \in DataMessages : DispatchData(m[1], m[2])
    \/ \E m \in BrokerStatusMessages : DispatchBrokerStatus(m[1], m[2])

SpecMqtt == Init /\ [][NextMqtt]_vars

(***************************************************************************)
(* Specification of the broker: HTTP request threads and well-formed MQTT  *)
(* traffic                                                                 *)
(***************************************************************************)
Bodies ==
    {[kind |-> "malformed"], [kind |-> "array"],
     [kind |-> "object", obj |-> [public_key |-> JStr(KeyA), domain |-> JStr(<<"ffda">>)]],
     [kind |-> "object", obj |-> [public_key |-> JStr(KeyA), domain |-> JStr(<<"nope">>)]],
     [kind |-> "object", obj |-> [public_key |-> JStr(KeyBadLast), domain |-> JStr(<<"ffda">>)]],
     [kind |-> "object", obj |-> [domain |-> JStr(<<"ffda">>)]]}

LiveMetricMessages ==
    ({<<TOPIC_METRICS_PREFIX, "ffda", w, CONNECTED_PEERS_METRIC>> : w \in WorkerIds}
        \X {<<"1">>, <<"2">>})
    \cup {<<<<TOPIC_METRICS_PREFIX, "nope", "gw1", CONNECTED_PEERS_METRIC>>, <<"1">>>>}

LiveStatusPayloads == {<<"0">>, <<"1">>}

Next ==
    \/ \E m \in LiveMetricMessages : OnMetrics(m[1], m[2]) /\ UNCHANGED mqtt_last
    \/ \E w \in WorkerIds, p \in LiveStatusPayloads :
          OnWorkerStatus(TOPIC_WORKER_STATUS(w), p) /\ UNCHANGED mqtt_last
    \/ \E w \in WorkerIds, d \in Domains :
          OnData(TOPIC_WORKER_WG_DATA(w, d), [kind |-> "object", obj |-> GoodData])
          /\ UNCHANGED mqtt_last
    \/ \E b \in BrokerIds, p \in LiveStatusPayloads :
          OnBrokerStatus(TOPIC_BROKER_STATUS(b), p) /\ UNCHANGED mqtt_last
    \/ \E r \in DOMAIN pc, body \in Bodies : wg_api_v1_key_exchange(r, body)
    \/ \E r \in DOMAIN pc, body \in Bodies : V2Publish(r, body)
    \/ \E r \in DOMAIN pc : V2Select(r)
    \/ \E r \in DOMAIN pc : V2Read(r)
    \/ \E r \in DOMAIN pc : V2Update(r)
    \/ \E r \in DOMAIN pc : V2Respond(r)

Spec == Init /\ [][Next]_vars

(***************************************************************************)
(* Specification of two request threads: the WSGI server runs the handlers *)
(* of concurrent requests in separate threads over the same module globals *)
(***************************************************************************)
ReqRace == {1, 2}

InitRace ==
    /\ worker_metrics = EmptyMap
    /\ worker_data = EmptyMap
    /\ broker_status = EmptyMap
    /\ mqtt_last = [handler |-> "none", topic |-> <<>>, payload |-> <<>>,
                    exc |-> "none", transition |-> "none", repeat |-> FALSE]
    /\ pc = [r \in ReqRace |-> "idle"]
    /\ req = [r \in ReqRace |-> NoRequest]
    /\ best = [r \in ReqRace |-> NoBest]
    /\ online_brokers = [r \in ReqRace |-> 0]
    /\ current_peers_domain = [r \in ReqRace |-> 0]
    /\ resp = [r \in ReqRace |-> NoResponse]
    /\ published = [r \in ReqRace |-> <<>>]
    /\ mqtt_session = NoSession

RaceBodies ==
    {[kind |-> "object", obj |-> [public_key |-> JStr(KeyA), domain |-> JStr(<<"ffda">>)]],
     [kind |-> "object", obj |-> [public_key |-> JStr(KeyA), domain |-> JStr(<<"nope">>)]]}

NextRace ==
    \/ OnMetrics(<<TOPIC_METRICS_PREFIX, "ffda", "gw1", CONNECTED_PEERS_METRIC>>, <<"1">>)
       /\ UNCHANGED mqtt_last
    \/ \E p \in LiveStatusPayloads :
          OnWorkerStatus(TOPIC_WORKER_STATUS("gw1"), p) /\ UNCHANGED mqtt_last
    \/ \E p \in LiveStatusPayloads :
          OnBrokerStatus(TOPIC_BROKER_STATUS(_HOSTNAME), p) /\ UNCHANGED mqtt_last
    \/ \E r \in DOMAIN pc, body \in RaceBodies : V2Publish(r, body)
    \/ \E r \in DOMAIN pc : V2Select(r)
    \/ \E r \in DOMAIN pc : V2Read(r)
    \/ \E r \in DOMAIN pc : V2Update(r)
    \/ \E r \in DOMAIN pc : V2Respond(r)

SpecRace == InitRace /\ [][NextRace]_vars

(***************************************************************************)
(* Specification of the MQTT session: the will, connects and reconnects,   *)
(* abnormal session ends, and the retained value of the broker's own       *)
(* status topic wireguard/broker/<hostname>/status at the MQTT server      *)
(***************************************************************************)
\* lines 130-132: mqtt.client.will_set(<own status topic>, 0, qos=1, retain=True)
will_set ==
    /\ ~mqtt_session.will
    /\ mqtt_session' = [mqtt_session EXCEPT !.will = TRUE]
    /\ UNCHANGED <<stores, mqtt_last, http>>

\* The client made by Mqtt(app) at line 128 opens a session, the first one or
\* the next one after a loss; app.py has no other statement that connects, and
\* none that holds the client back until line 130 has run.  The CONNECT packet
\* carries the will that is registered when it is sent.
Connect ==
    /\ mqtt_session.link \in {"idle", "lost"}
    /\ mqtt_session' = [mqtt_session EXCEPT !.link = "connected",
                                            !.session_will = mqtt_session.will]
    /\ UNCHANGED <<stores, mqtt_last, http>>

\* handle_mqtt_connect, lines 263-267: subscribe, then publish 1 retained
handle_mqtt_connect ==
    /\ mqtt_session.link = "connected"
    /\ mqtt_session' = [mqtt_session EXCEPT !.link = "subscribed", !.retained = <<"1">>]
    /\ UNCHANGED <<stores, mqtt_last, http>>

\* the session ends without a DISCONNECT: the MQTT server publishes the will
\* of that session, if the session has one
SessionLost ==
    /\ mqtt_session.link \in {"connected", "subscribed"}
    /\ mqtt_session' = [mqtt_session EXCEPT
                            !.link = "lost",
                            !.retained = IF mqtt_session.session_will THEN <<"0">> ELSE @]
    /\ UNCHANGED <<stores, mqtt_last, http>>

\* the subscription of line 266 delivers the retained value of the broker's
\* own status topic and the status messages of the other brokers
DeliverBrokerStatus(topic, payload) ==
    /\ mqtt_session.link = "subscribed"
    /\ topic = TOPIC_BROKER_STATUS(_HOSTNAME) => payload = mqtt_session.retained
    /\ DispatchBrokerStatus(topic, payload)

NextSession ==
    \/ will_set
    \/ Connect
    \/ handle_mqtt_connect
    \/ SessionLost
    \/ \E m \in BrokerStatusMessages : DeliverBrokerStatus(m[1], m[2])

SpecSession == Init /\ [][NextSession]_vars

(***************************************************************************)
(* Properties                                                              *)
(***************************************************************************)
LastTopic == mqtt_last.topic
LastPayload == mqtt_last.payload

\* a worker data message that carries all four fields and a valid key
CompleteData(payload) ==
    /\ payload.kind = "object"
    /\ {"ExternalAddress", "Port", "LinkAddress", "PublicKey"} \subseteq DOMAIN payload.obj
    /\ payload.obj.Port.t = "num"
    /\ is_valid_wg_pubkey(payload.obj.PublicKey).exc = "none"

\* C1: after a data message for a configured domain with ExternalAddress, Port,
\* LinkAddress and a valid PublicKey has been processed, worker_data holds a
\* record for (worker, domain) with exactly those four values.
C1_DataMessageStored ==
    (/\ mqtt_last.handler = "data"
     /\ is_valid_domain(LastTopic[3])
     /\ CompleteData(LastPayload))
    => /\ <<LastTopic[2], LastTopic[3]>> \in DOMAIN worker_data
       /\ worker_data[<<LastTopic[2], LastTopic[3]>>] =
            [external_address |-> LastPayload.obj.ExternalAddress.v,
             port |-> LastPayload.obj.Port.v,
             link_address |-> LastPayload.obj.LinkAddress.v,
             public_key |-> LastPayload.obj.PublicKey.v]

InV2(r) == req[r].api = "v2" /\ pc[r] \in {"published", "selected", "read", "updated"}

\* C2: a valid v2 request answers 400 "no gateway online" exactly when
\* get_best_worker finds no worker at the time of selection; otherwise 500
\* "could not get gateway data" when worker_data has no record for
\* (best, domain) at the time of the lookup; otherwise 200 with Address, Port
\* (as a string), AllowedIPs and PublicKey of that record.  It ends in no other way.
C2_ResponseDetermined ==
    [][\A r \in DOMAIN pc :
          (InV2(r) /\ pc'[r] # pc[r]) =>
            LET domain == req[r].domain
                key == <<best[r].worker, domain>>
            IN  \/ /\ pc[r] = "published"
                   /\ get_best_worker(worker_metrics, domain).worker = None
                   /\ pc'[r] = "done"
                   /\ resp'[r] = [status |-> 400, error |-> "no gateway online"]
                \/ /\ pc[r] = "published"
                   /\ get_best_worker(worker_metrics, domain).worker # None
                   /\ pc'[r] = "selected"
                \/ /\ pc[r] \in {"selected", "read"}
                   /\ pc'[r] \in {"read", "updated"}
                \/ /\ pc[r] = "updated"
                   /\ pc'[r] = "done"
                   /\ key \notin DOMAIN worker_data
                   /\ resp'[r] = [status |-> 500, error |-> "could not get gateway data"]
                \/ /\ pc[r] = "updated"
                   /\ pc'[r] = "done"
                   /\ key \in DOMAIN worker_data
                   /\ resp'[r] =
                        [status |-> 200,
                         Endpoint |->
                            [Address |-> worker_data[key].external_address,
                             Port |-> IntToStr(worker_data[key].port),
                             AllowedIPs |-> <<worker_data[key].link_address>>,
                             PublicKey |-> worker_data[key].public_key]]]_vars

\* a v2 request has selected a worker and ended with 500 for lack of its endpoint
C2_Witness ==
    \E r \in DOMAIN pc :
        /\ req[r].api = "v2"
        /\ pc[r] = "done"
        /\ best[r].worker # None
        /\ resp[r] = [status |-> 500, error |-> "could not get gateway data"]

\* C3: the interpolation write of a v2 request stores the connected_peers
\* value the request read for (best, domain) plus the number n of brokers it
\* counted online, so a stored value nobody changed since the read grows by
\* exactly n.
C3_InterpolationAddsN ==
    [][\A r \in DOMAIN pc :
          /\ (pc[r] = "selected" /\ pc'[r] = "read") =>
                /\ online_brokers'[r] =
                      Cardinality({b \in DOMAIN broker_status : broker_status[b].online})
                /\ current_peers_domain'[r] =
                      PeerCount(worker_metrics, best[r].worker, req[r].domain)
          /\ (pc[r] = "read" /\ pc'[r] = "updated") =>
                /\ PeerCount(worker_metrics', best[r].worker, req[r].domain) =
                      current_peers_domain[r] + online_brokers[r]
                /\ PeerCount(worker_metrics, best[r].worker, req[r].domain) =
                      current_peers_domain[r]
                   => PeerCount(worker_metrics', best[r].worker, req[r].domain) =
                        PeerCount(worker_metrics, best[r].worker, req[r].domain)
                        + online_brokers[r]]_vars

\* a request has written the value it read plus two online brokers
C3_Witness ==
    \E r \in DOMAIN pc :
        /\ pc[r] = "updated"
        /\ online_brokers[r] = 2
        /\ PeerCount(worker_metrics, best[r].worker, req[r].domain) =
              current_peers_domain[r] + 2

\* C4: the number of online brokers a v2 request computes for its
\* interpolation write is at least 1.
C4_AtLeastOneBroker ==
    \A r \in DOMAIN pc : pc[r] \in {"read", "updated"} => online_brokers[r] >= 1

\* the online workers with metrics for the domain
OnlineWithDomain(wm, domain) ==
    {w \in DOMAIN wm : wm[w].online /\ domain \in DOMAIN wm[w].domain_metrics}

\* w comes first among the workers ws: fewest connected_peers, then smallest id
FirstAmong(wm, domain, w, ws) ==
    /\ w \in ws
    /\ \A o \in ws :
          \/ PeerCount(wm, w, domain) < PeerCount(wm, o, domain)
          \/ PeerCount(wm, w, domain) = PeerCount(wm, o, domain) /\ Rank(w) <= Rank(o)

\* C5: after every step that changes worker_metrics get_best_worker returns no
\* worker whose online flag is false, and a v2 request selects none; once
\* a worker-status message with payload < 1 for worker w has been processed,
\* selection for any domain does not return w, and where w was the minimum it
\* returns the second-lowest online worker, or none if no other remains.
C5_NeverOfflineWorker ==
    [][/\ worker_metrics' # worker_metrics =>
            \A d \in Domains :
                LET g == get_best_worker(worker_metrics', d).worker
                IN  g # None => worker_metrics'[g].online
       /\ \A r \in DOMAIN pc :
            (pc[r] = "published" /\ pc'[r] = "selected")
                => worker_metrics[best'[r].worker].online
       /\ \A w \in WorkerIds, p \in LiveStatusPayloads :
            (/\ worker_metrics' # worker_metrics
             /\ IntVal(p) < 1
             /\ OnWorkerStatus(TOPIC_WORKER_STATUS(w), p)) =>
                \A d \in Domains :
                    LET after == get_best_worker(worker_metrics', d).worker
                        rest == OnlineWithDomain(worker_metrics, d) \ {w}
                    IN  /\ after # w
                        /\ get_best_worker(worker_metrics, d).worker = w =>
                              IF rest = {} THEN after = None
                              ELSE FirstAmong(worker_metrics, d, after, rest)]_vars

\* gw1, with fewer peers than gw2, is offline and a request has selected gw2
C5_Witness ==
    \E r \in DOMAIN pc :
        /\ pc[r] = "selected"
        /\ best[r].worker = "gw2"
        /\ "gw1" \in DOMAIN worker_metrics
        /\ ~worker_metrics["gw1"].online
        /\ "ffda" \in DOMAIN worker_metrics["gw1"].domain_metrics
        /\ PeerCount(worker_metrics, "gw1", "ffda") < PeerCount(worker_metrics, "gw2", "ffda")

\* what get_best_worker has to return for the store wm and the domain
BestOf(sel, wm, domain) ==
    LET cands == OnlineWithDomain(wm, domain)
    IN  IF cands = {} THEN sel = [worker |-> None, diff |-> 0, current_peers |-> 0]
        ELSE /\ FirstAmong(wm, domain, sel.worker, cands)
             /\ sel.current_peers = PeerCount(wm, sel.worker, domain)
             /\ IF cands = {sel.worker} THEN sel.diff = 0
                ELSE \E o \in cands \ {sel.worker} :
                        /\ FirstAmong(wm, domain, o, cands \ {sel.worker})
                        /\ sel.diff = PeerCount(wm, o, domain) - sel.current_peers

\* C6: after every change of worker_metrics and for every domain, get_best_worker returns an online
\* candidate whose connected_peers is the minimum, the smallest worker id among
\* equals, with current_peers that minimum and diff the second-lowest minus the
\* lowest (0 with one candidate); a v2 request takes exactly that result.
C6_SelectionMinimal ==
    [][/\ worker_metrics' # worker_metrics =>
            \A d \in Domains :
                BestOf(get_best_worker(worker_metrics', d), worker_metrics', d)
       /\ \A r \in DOMAIN pc :
            (pc[r] = "published" /\ pc'[r] # pc[r])
                => BestOf(best'[r], worker_metrics, req[r].domain)]_vars

\* a request has selected gw2, which has fewer peers than the online gw1
C6_Witness ==
    \E r \in DOMAIN pc :
        /\ pc[r] = "selected"
        /\ best[r].worker = "gw2"
        /\ best[r].diff > 0
        /\ "gw1" \in DOMAIN worker_metrics
        /\ worker_metrics["gw1"].online
        /\ PeerCount(worker_metrics, "gw1", "ffda") = best[r].current_peers + best[r].diff

\* the last message dispatched was a metric or data message for an unconfigured domain
UnconfiguredDomainMessage(last) ==
    \/ /\ last.handler = "metrics"
       /\ Len(last.topic) >= 4
       /\ last.topic[2] \notin ConfiguredDomains
    \/ /\ last.handler = "data"
       /\ last.topic[3] \notin ConfiguredDomains

\* C7: a metric message or a worker data message whose domain is not configured
\* leaves worker_metrics, worker_data and broker_status unchanged, whatever its payload.
C7_DomainGating ==
    [][UnconfiguredDomainMessage(mqtt_last') => UNCHANGED stores]_vars

\* a well-formed metric for an unconfigured domain arrived at a non-empty store
C7_Witness ==
    /\ mqtt_last.handler = "metrics"
    /\ UnconfiguredDomainMessage(mqtt_last)
    /\ IntOk(mqtt_last.payload)
    /\ worker_metrics # EmptyMap

\* C8: a worker-status or broker-status message that repeats the message
\* processed just before it changes no online flag and logs no transition.
C8_StatusIdempotent ==
    [][(mqtt_last'.repeat /\ mqtt_last'.handler \in {"worker_status", "broker_status"})
          => /\ worker_metrics' = worker_metrics
             /\ broker_status' = broker_status
             /\ mqtt_last'.transition = "none"]_vars

\* an online announcement for a worker was delivered twice in a row
C8_Witness ==
    /\ mqtt_last.repeat
    /\ mqtt_last.handler = "worker_status"
    /\ IntOk(mqtt_last.payload)
    /\ IntVal(mqtt_last.payload) >= 1
    /\ worker_metrics[mqtt_last.topic[2]].online

\* C9: the broker ids in broker_status never shrink; an id is entered only by
\* a status message with payload >= 1 for that broker, and comes in online; a
\* message with payload < 1 for an unknown broker enters nothing.
C9_BrokerEntriesKept ==
    [][/\ DOMAIN broker_status \subseteq DOMAIN broker_status'
       /\ \A b \in DOMAIN broker_status' \ DOMAIN broker_status :
             /\ mqtt_last'.handler = "broker_status"
             /\ mqtt_last'.topic = TOPIC_BROKER_STATUS(b)
             /\ IntOk(mqtt_last'.payload)
             /\ IntVal(mqtt_last'.payload) >= 1
             /\ broker_status'[b].online
       /\ (/\ mqtt_last'.handler = "broker_status"
           /\ mqtt_last'.topic[2] \notin DOMAIN broker_status
           /\ IntOk(mqtt_last'.payload)
           /\ IntVal(mqtt_last'.payload) < 1)
          => broker_status' = broker_status]_vars

\* a known broker has gone offline and its entry is still there
C9_Witness ==
    /\ mqtt_last.handler = "broker_status"
    /\ mqtt_last.transition = "offline"
    /\ mqtt_last.topic[2] \in DOMAIN broker_status
    /\ ~broker_status[mqtt_last.topic[2]].online

\* C10: no MQTT message callback lets an exception out, and a message with a
\* non-integer payload, malformed JSON, a missing field or a topic with too few
\* levels leaves every store unchanged.
C10_NoCallbackException ==
    mqtt_last.exc = "none"

\* C11: a v2 request that passes validation publishes the submitted public key
\* to wireguard/<domain>/all exactly once, in the step that precedes worker
\* selection: through selection, interpolation and the response (200, 400 "no
\* gateway online" or 500) the request has that one publication and adds none.
C11_PublishedOnceBeforeSelection ==
    [][\A r \in DOMAIN pc :
          /\ (Accepts(r) /\ pc'[r] = "published") =>
                \E body \in Bodies :
                    /\ body.kind = "object"
                    /\ {"public_key", "domain"} \subseteq DOMAIN body.obj
                    /\ req'[r] = [api |-> "v2", public_key |-> body.obj.public_key.v,
                                  domain |-> body.obj.domain.v[1]]
                    /\ published'[r] =
                          <<[topic |-> <<"wireguard", body.obj.domain.v[1], "all">>,
                             payload |-> body.obj.public_key.v]>>
          /\ InV2(r) =>
                /\ published[r] = <<[topic |-> <<"wireguard", req[r].domain, "all">>,
                                     payload |-> req[r].public_key]>>
                /\ published'[r] = published[r]
                /\ req'[r] = req[r]]_vars

\* a v2 request ended with 500 and its key went out once to wireguard/ffda/all
C11_Witness ==
    \E r \in DOMAIN pc :
        /\ req[r].api = "v2"
        /\ pc[r] = "done"
        /\ resp[r].status = 500
        /\ published[r] = <<[topic |-> <<"wireguard", "ffda", "all">>, payload |-> KeyA]>>

\* the step is one of request thread r
StepOf(r) ==
    \/ pc'[r] # pc[r]
    \/ req'[r] # req[r]
    \/ resp'[r] # resp[r]
    \/ published'[r] # published[r]

\* C12: a v1 request with a valid key and a configured domain publishes the key
\* once to wireguard/<domain>/all and returns 200 {"Message": "OK"} in every
\* state of the stores, also when no worker is online, and leaves
\* worker_metrics, worker_data and broker_status unchanged.
C12_V1PublishesAndAnswersOK ==
    [][\A r \in DOMAIN pc :
          (/\ StepOf(r)
           /\ Accepts(r)
           /\ req'[r].api = "v1"
           /\ is_valid_wg_pubkey(JStr(req'[r].public_key)).exc = "none"
           /\ req'[r].domain \in ConfiguredDomains)
          => /\ pc'[r] = "done"
             /\ resp'[r] = [status |-> 200, Message |-> "OK"]
             /\ published'[r] = <<[topic |-> <<"wireguard", req'[r].domain, "all">>,
                                   payload |-> req'[r].public_key]>>
             /\ UNCHANGED stores]_vars

\* a v1 request was answered 200 while the stores know workers, none of them online
C12_Witness ==
    \E r \in DOMAIN pc :
        /\ req[r].api = "v1"
        /\ resp[r] = [status |-> 200, Message |-> "OK"]
        /\ Len(published[r]) = 1
        /\ worker_metrics # EmptyMap
        /\ \A w \in DOMAIN worker_metrics : ~worker_metrics[w].online

\* the JSON object carries no public_key string that matches WG_PUBKEY_PATTERN,
\* or a domain that is not configured
BadKeyOrDomain(body) ==
    /\ body.kind = "object"
    /\ \/ "public_key" \notin DOMAIN body.obj
       \/ body.obj.public_key.t # "str"
       \/ ~WG_PUBKEY_PATTERN_match(body.obj.public_key.v)
       \/ "domain" \notin DOMAIN body.obj
       \/ body.obj.domain.t # "str"
       \/ \A d \in ConfiguredDomains : body.obj.domain.v # <<d>>

\* C14: a v1 or v2 request whose public key does not match the WireGuard
\* pattern (a missing key included) or whose domain is not configured is
\* answered 400 with an {"error": {"message": ...}} body, publishes nothing
\* over MQTT and leaves worker_metrics, worker_data and broker_status unchanged.
C14_InvalidRequestRejected ==
    [][\A r \in DOMAIN pc, body \in Bodies :
          (/\ StepOf(r)
           /\ BadKeyOrDomain(body)
           /\ \/ wg_api_v1_key_exchange(r, body)
              \/ V2Publish(r, body))
          => /\ pc'[r] = "done"
             /\ resp'[r].status = 400
             /\ DOMAIN resp'[r] = {"status", "error"}
             /\ published'[r] = <<>>
             /\ UNCHANGED stores]_vars

\* a v2 request was refused with the ValueError of the validation while a
\* worker was online for the configured domain
C14_Witness ==
    \E r \in DOMAIN pc :
        /\ req[r] = [api |-> "v2", public_key |-> <<>>, domain |-> None]
        /\ pc[r] = "done"
        /\ resp[r] = [status |-> 400, error |-> "ValueError"]
        /\ published[r] = <<>>
        /\ get_best_worker(worker_metrics, "ffda").worker # None

\* C15: in every reachable state every domain key of worker_metrics and of
\* worker_data is a configured domain, whatever MQTT messages and HTTP
\* requests (the interpolation write of v2 included) have been processed.
C15_OnlyConfiguredDomains ==
    /\ \A w \in DOMAIN worker_metrics :
          DOMAIN worker_metrics[w].domain_metrics \subseteq ConfiguredDomains
    /\ \A k \in DOMAIN worker_data : k[2] \in ConfiguredDomains

\* a v2 request has made its interpolation write and the worker's metrics
\* hold the request's domain
C15_Witness ==
    \E r \in DOMAIN pc :
        /\ pc[r] = "updated"
        /\ DOMAIN worker_metrics[best[r].worker].domain_metrics = {req[r].domain}
        /\ Cardinality(DOMAIN worker_metrics) = 2

\* C17: a metric message for a configured domain d with non-empty worker w and
\* metric m and an integer payload v replaces the stored value: right after it
\* is processed the store holds exactly v for (w, d, m), whatever was stored
\* before and whatever v2 interpolation writes were made since the last
\* metric message.
C17_MetricReplaces ==
    [][\A msg \in LiveMetricMessages :
          LET d == msg[1][2]
              w == msg[1][3]
              m == msg[1][4]
          IN  (/\ worker_metrics' # worker_metrics
               /\ d \in ConfiguredDomains
               /\ w # ""
               /\ m # ""
               /\ IntOk(msg[2])
               /\ OnMetrics(msg[1], msg[2]))
              => /\ w \in DOMAIN worker_metrics'
                 /\ d \in DOMAIN worker_metrics'[w].domain_metrics
                 /\ m \in DOMAIN worker_metrics'[w].domain_metrics[d]
                 /\ worker_metrics'[w].domain_metrics[d][m] = IntVal(msg[2])
                 /\ \A o \in DOMAIN worker_metrics \ {w} :
                       worker_metrics'[o] = worker_metrics[o]]_vars

\* after the interpolation write of a request that counted a broker, a metric
\* message has put a smaller value in the place of the interpolated one
C17_Witness ==
    \E r \in DOMAIN pc :
        /\ pc[r] \in {"updated", "done"}
        /\ best[r].worker # None
        /\ online_brokers[r] >= 1
        /\ PeerCount(worker_metrics, best[r].worker, req[r].domain) <
              current_peers_domain[r] + online_brokers[r]

\* C13: the broker's retained status follows its MQTT session: every session
\* is opened with the last-will (payload 0, retained) registered, so the will
\* precedes the first connect; once the connect callback has run the retained
\* value is 1, also after a reconnect; and when a session has ended
\* abnormally the retained value is 0.
C13_RetainedFollowsSession ==
    /\ mqtt_session.link \in {"connected", "subscribed"} => mqtt_session.session_will
    /\ mqtt_session.link = "subscribed" => mqtt_session.retained = <<"1">>
    /\ mqtt_session.link = "lost" => mqtt_session.retained = <<"0">>

\* the online flag of worker w, false for a worker the store does not know
OnlineFlag(wm, w) == w \in DOMAIN wm /\ wm[w].online

\* C18: a worker's online flag is true exactly when the most recent
\* worker-status message processed for it had payload >= 1: a status message
\* with an integer payload leaves the flag at (payload >= 1), and no other step
\* changes a flag, so a worker known only through metric or data messages is
\* offline; a v2 request for a domain none of whose workers is online is
\* answered 400 "no gateway online".
C18_OnlineFollowsStatus ==
    [][/\ \A w \in WorkerIds, p \in LiveStatusPayloads :
            (/\ worker_metrics' # worker_metrics
             /\ IntOk(p)
             /\ OnWorkerStatus(TOPIC_WORKER_STATUS(w), p))
            => (OnlineFlag(worker_metrics', w) <=> IntVal(p) >= 1)
       /\ worker_metrics' # worker_metrics =>
            \A w \in DOMAIN worker_metrics' :
                OnlineFlag(worker_metrics', w) # OnlineFlag(worker_metrics, w)
                => \E p \in LiveStatusPayloads :
                      /\ IntOk(p)
                      /\ OnWorkerStatus(TOPIC_WORKER_STATUS(w), p)
       /\ \A r \in DOMAIN pc :
            (/\ pc[r] = "published"
             /\ pc'[r] # pc[r]
             /\ \A w \in DOMAIN worker_metrics :
                   req[r].domain \in DOMAIN worker_metrics[w].domain_metrics
                   => ~worker_metrics[w].online)
            => /\ pc'[r] = "done"
               /\ resp'[r] = [status |-> 400, error |-> "no gateway online"]]_vars

\* a v2 request for ffda was answered 400 while every worker with ffda
\* metrics was offline
C18_Witness ==
    \E r \in DOMAIN pc :
        /\ req[r] = [api |-> "v2", public_key |-> KeyA, domain |-> "ffda"]
        /\ pc[r] = "done"
        /\ resp[r] = [status |-> 400, error |-> "no gateway online"]
        /\ \E w \in DOMAIN worker_metrics : "ffda" \in DOMAIN worker_metrics[w].domain_metrics
        /\ \A w \in DOMAIN worker_metrics : ~worker_metrics[w].online

\* C19: a v2 request that ends with 500 has already made its interpolation
\* write: the 500 answer is given only after the step that stored, for the
\* selected (worker, domain), the connected_peers value the request read plus
\* its online-broker count, and that step has changed worker_metrics, so the
\* error response does not leave the store as it was.
C19_WriteBefore500 ==
    [][\A r \in DOMAIN pc :
          /\ (pc'[r] = "done" /\ pc[r] # "done" /\ resp'[r].status = 500)
                => pc[r] = "updated"
          /\ (pc'[r] = "updated" /\ pc[r] # "updated") =>
                /\ pc[r] = "read"
                /\ PeerCount(worker_metrics', best[r].worker, req[r].domain) =
                      current_peers_domain[r] + online_brokers[r]
                /\ worker_metrics' # worker_metrics]_vars

\* C20: a v2 request that ends with 400 "no gateway online" makes no
\* interpolation write: it ends at the selection, having taken only the
\* validate-and-publish step before, and neither of its two steps changes
\* worker_metrics, worker_data or broker_status.
C20_NoWriteOn400 ==
    [][\A r \in DOMAIN pc :
          /\ (/\ pc'[r] = "done"
              /\ pc[r] # "done"
              /\ resp'[r] = [status |-> 400, error |-> "no gateway online"])
             => /\ pc[r] = "published"
                /\ best'[r].worker = None
                /\ UNCHANGED stores
          /\ (StepOf(r) /\ pc'[r] = "published")
             => /\ Accepts(r)
                /\ UNCHANGED stores]_vars

\* a v2 request was answered 400 "no gateway online" in front of stores that
\* hold worker metrics and an online broker
C20_Witness ==
    \E r \in DOMAIN pc :
        /\ req[r].api = "v2"
        /\ pc[r] = "done"
        /\ resp[r] = [status |-> 400, error |-> "no gateway online"]
        /\ worker_metrics # EmptyMap
        /\ \E b \in DOMAIN broker_status : broker_status[b].online

\* request q has made its interpolation write for the worker and domain of
\* request r, from the same base value and the same broker count as r holds
WroteFromSameBase(q, r) ==
    /\ q # r
    /\ req[q].api = "v2"
    /\ pc[q] \in {"updated", "done"}
    /\ best[q].worker # None
    /\ best[q].worker = best[r].worker
    /\ req[q].domain = req[r].domain
    /\ current_peers_domain[q] = current_peers_domain[r]
    /\ online_brokers[q] = online_brokers[r]
    /\ online_brokers[r] >= 1

\* C16: two concurrent v2 requests for the same domain that select the same
\* worker can both read the same base connected_peers and both write base+n:
\* the write of the second request stores base+n again, not base+2n, so one
\* increment is lost.
C16_LostUpdate ==
    [][\A r \in DOMAIN pc, q \in DOMAIN pc :
          (/\ pc[r] = "read"
           /\ pc'[r] = "updated"
           /\ WroteFromSameBase(q, r))
          => /\ PeerCount(worker_metrics', best[r].worker, req[r].domain) =
                   current_peers_domain[r] + online_brokers[r]
             /\ PeerCount(worker_metrics', best[r].worker, req[r].domain) #
                   current_peers_domain[r] + 2 * online_brokers[r]]_vars

\* both requests are past their write, both read base 1 and counted 1 broker,
\* and the store holds 2 where two increments would give 3
C16_Witness ==
    /\ DOMAIN pc = {1, 2}
    /\ pc[1] \in {"updated", "done"}
    /\ pc[2] = "updated"
    /\ WroteFromSameBase(1, 2)
    /\ current_peers_domain[2] = 1
    /\ online_brokers[2] = 1
    /\ PeerCount(worker_metrics, best[2].worker, req[2].domain) = 2

====
